---------------------------- MODULE Spec2Model ----------------------------
(***************************************************************************)
(* Instance generator for the petroleum-distribution VRP.                  *)
(*                                                                         *)
(* Two programs are modelled, each a class PetroleumVRPGenerator:          *)
(*   program = "generator" : src/generator.py (fleet-size policy)          *)
(*   program = "projet"    : src/projet.py    (stock policy)               *)
(*                                                                         *)
(* Units. Lengths given to the program (zone_size) are in metres; a        *)
(* coordinate or distance rounded to 2 decimals of a kilometre is an       *)
(* integer number of 10 m steps.  stock_multiplier and the uniform         *)
(* variation factors are in hundredths (110 is 1.10).                      *)
(*                                                                         *)
(* The random module is a deterministic generator: its state is the seed   *)
(* and the number of draws made since seeding (rng), and tape[s] holds the *)
(* outputs the generator seeded with s has shown so far.  A draw that      *)
(* repeats a recorded call at a recorded position returns the recorded     *)
(* value; any other draw may return any value of the call's range.         *)
(***************************************************************************)
EXTENDS Integers, Sequences, FiniteSets, TLC

VARIABLES
    program,    \* which source file's PetroleumVRPGenerator is run
    self_seed,  \* the seed given to the generator last constructed
    pending,    \* the calls still to make: <<seed, config>> each
    rng,        \* the random module's state: [seed, pos]
    tape,       \* tape[s]: the <<call, value>> outputs shown by seed s
    drawn,      \* the <<call, value>> draws consumed by the current call
    pc,         \* position in __init__ / generate_instance
    cfg,        \* the arguments of the current generate_instance call
    loc,        \* the local variables of generate_instance
    outcome,    \* "none", "returned", or the exception that ended the call
    instance,   \* <<the returned instance>>, or <<>>
    prev        \* the finished calls: [seed, cfg, drawn, outcome, instance]

vars == <<program, self_seed, pending, rng, tape, drawn, pc, cfg, loc, outcome, instance, prev>>

-----------------------------------------------------------------------------
(* Bounds of the enumerated inputs.                                        *)

MaxGarages == 2
MaxDepots == 2
MaxStations == 2
MaxDemand == 2
MaxCapacity == 2
MaxTrucks == 1
MaxMinTrucks == 60

(* Program constants.                                                      *)
DefaultSeed == 42

PRODUCTS == <<"essence", "gasoil">>

Difficulties == {"easy", "medium", "hard"}

-----------------------------------------------------------------------------
(* Arithmetic helpers.                                                     *)

Min2(a, b) == IF a <= b THEN a ELSE b

Max2(a, b) == IF a >= b THEN a ELSE b

RECURSIVE SumSeq(_)
SumSeq(s) == IF s = <<>> THEN 0 ELSE Head(s) + SumSeq(Tail(s))

(* Python's round(x, 2) of a length of z metres, in 10 m steps.  Exact for *)
(* the lengths used here, none of which ends in 5 metres.                  *)
Round2(z) == IF z >= 0 THEN (z + 5) \div 10 ELSE 0 - ((5 - z) \div 10)

(* Integer square root, and the nearest integer to sqrt(s): sqrt(s) is     *)
(* never half-way between two integers, so rounding has no tie.            *)
ISqrt(s) == CHOOSE r \in 0..s : r * r <= s /\ (r + 1) * (r + 1) > s

RoundSqrt(s) == LET r == ISqrt(s) IN IF s - r * r > r THEN r + 1 ELSE r

(* _euclidean_distance followed by round(., 2): p1, p2 in 10 m steps.      *)
(* SwappedAxisDistance subtracts the other point's other axis.             *)
SwappedAxisDistance(p1, p2) ==
    RoundSqrt((p1[1] - p2[2]) * (p1[1] - p2[2])
              + (p1[2] - p2[1]) * (p1[2] - p2[1]))

_euclidean_distance(p1, p2) ==
    RoundSqrt((p1[1] - p2[1]) * (p1[1] - p2[1])
              + (p1[2] - p2[2]) * (p1[2] - p2[2]))

-----------------------------------------------------------------------------
(* IEEE-754 binary64 multiplication of a small integer by a float literal. *)
(* A literal is its float.hex() significand: the leading 1 and 13 hex      *)
(* digits, value = significand / 2^52.  Numbers too wide for 32-bit        *)
(* integers are little-endian bit sequences.                               *)

Margin_1_2 == <<1, 3, 3, 3, 3, 3, 3, 3, 3, 3, 3, 3, 3, 3>>    \* 0x1.3333333333333p+0
Margin_1_1 == <<1, 1, 9, 9, 9, 9, 9, 9, 9, 9, 9, 9, 9, 10>>   \* 0x1.199999999999ap+0
Margin_1_0 == <<1, 0, 0, 0, 0, 0, 0, 0, 0, 0, 0, 0, 0, 0>>    \* 0x1.0000000000000p+0

HexBits(h) == <<h % 2, (h \div 2) % 2, (h \div 4) % 2, (h \div 8) % 2>>

RECURSIVE SignificandBits(_)
SignificandBits(hex) ==
    IF hex = <<>> THEN <<>>
    ELSE SignificandBits(Tail(hex)) \o HexBits(Head(hex))

RECURSIVE StripZeros(_)
StripZeros(b) ==
    IF b = <<>> THEN <<>>
    ELSE IF b[Len(b)] = 0 THEN StripZeros(SubSeq(b, 1, Len(b) - 1)) ELSE b

RECURSIVE MulBits(_, _, _)
MulBits(b, m, carry) ==
    IF b = <<>>
    THEN IF carry = 0 THEN <<>> ELSE <<carry % 2>> \o MulBits(<<>>, m, carry \div 2)
    ELSE LET t == m * Head(b) + carry
         IN  <<t % 2>> \o MulBits(Tail(b), m, t \div 2)

RECURSIVE IncBits(_)
IncBits(b) ==
    IF b = <<>> THEN <<1>>
    ELSE IF Head(b) = 0 THEN <<1>> \o Tail(b) ELSE <<0>> \o IncBits(Tail(b))

RECURSIVE BitsValue(_)
BitsValue(b) == IF b = <<>> THEN 0 ELSE Head(b) + 2 * BitsValue(Tail(b))

(* The exact product m * significand (m >= 0), rounded to 53 significant   *)
(* bits, ties to even: <<kept bits, number of low bits dropped>>.          *)
RoundNearestEven(p) ==
    LET L == Len(p)
        s == L - 53
    IN  IF s <= 0 THEN <<p, 0>>
        ELSE LET kept   == SubSeq(p, s + 1, L)
                 guard  == p[s]
                 sticky == \E i \in 1..(s - 1) : p[i] = 1
                 up     == guard = 1 /\ (sticky \/ kept[1] = 1)
             IN  <<IF up THEN IncBits(kept) ELSE kept, s>>

(* floor and ceil of the float m * literal, for m >= 0: the rounded        *)
(* product is kept * 2^(dropped - 52).                                     *)
FloatMulParts(m, hex) ==
    LET r    == RoundNearestEven(StripZeros(MulBits(SignificandBits(hex), m, 0)))
        frac == 52 - r[2]
        bits == r[1]
    IN  [int  |-> BitsValue(SubSeq(bits, frac + 1, Len(bits))),
         frac |-> \E i \in 1..Min2(frac, Len(bits)) : bits[i] = 1]

(* math.ceil(m * literal) with m an int: the sign is exact in IEEE-754,    *)
(* so for m < 0 it is -floor(|m| * literal).                               *)
CeilFloatMul(m, hex) ==
    IF m >= 0
    THEN LET q == FloatMulParts(m, hex) IN q.int + (IF q.frac THEN 1 ELSE 0)
    ELSE 0 - FloatMulParts(0 - m, hex).int

-----------------------------------------------------------------------------
(* The random module.                                                      *)

Seeds == {DefaultSeed, 7}

(* The generator's state as a value threaded through the draws of a step.  *)
Gen == [rng |-> rng, tape |-> tape, drawn |-> drawn]

(* The values a draw may return: the recorded one when the generator has   *)
(* already answered this call at this position, else any value of range.   *)
Outcomes(g, call, range) ==
    LET shown == g.tape[g.rng.seed]
        k     == g.rng.pos + 1
    IN  IF k <= Len(shown) /\ shown[k][1] = call THEN {shown[k][2]} ELSE range

(* The generator after answering call with v: a recorded answer stays     *)
(* recorded with what follows it, a new one replaces the record from this  *)
(* position on.                                                            *)
Take(g, call, v) ==
    [rng   |-> [g.rng EXCEPT !.pos = @ + 1],
     tape  |-> [g.tape EXCEPT ![g.rng.seed] =
                   IF g.rng.pos + 1 <= Len(@) /\ @[g.rng.pos + 1] = <<call, v>>
                   THEN @
                   ELSE Append(SubSeq(@, 1, g.rng.pos), <<call, v>>)],
     drawn |-> Append(g.drawn, <<call, v>>)]

SetGen(g) == rng' = g.rng /\ tape' = g.tape /\ drawn' = g.drawn

(* random.seed(seed): the state becomes the seed's stream at its start.    *)
(* KeepState leaves the module's state as the previous call left it.       *)
KeepState(r, seed) == r

SeedRandom(r, seed) == [seed |-> seed, pos |-> 0]

(* random.randint(a, b) returns an integer of a..b, and raises ValueError  *)
(* when a > b.                                                             *)
RandintRange(a, b) == a..b

(* round(random.uniform(0, zone_size), 2): every 10 m step between the     *)
(* rounded ends, zone_size in metres.                                      *)
CoordinateRange(zone_size) ==
    Min2(0, Round2(zone_size))..Max2(0, Round2(zone_size))

(* Samples of random.random(), in hundredths: below both thresholds of the *)
(* demand policy, between them, above both.                                *)
RandomSamples == {10, 25, 50}

(* Samples of random.uniform(a, b), in hundredths: its two ends.           *)
UniformSamples(a, b) == {a, b}

(* The values random.randint(min_d, max_d) draws a demand from.            *)
(* DemandDrawFromZero is randint(0, max_d).                                *)
DemandDrawFromZero(demand_range) == RandintRange(0, demand_range[2])

DemandDrawRange(demand_range) == RandintRange(demand_range[1], demand_range[2])

-----------------------------------------------------------------------------
(* Configurations.  Counts are enumerated from 0 up; the malformed         *)
(* configurations enumerated are those of non-positive zone_size,          *)
(* non-positive truck_capacity and inverted demand_range.                  *)

DemandRanges == {<<a, b>> : a \in 0..MaxDemand, b \in 0..MaxDemand}

ValidDemandRanges == {r \in DemandRanges : r[1] <= r[2]}

Config(g, d, s, t, c, z, r, m, diff) ==
    [n_garages |-> g, n_depots |-> d, n_stations |-> s, n_trucks |-> t,
     truck_capacity |-> c, zone_size |-> z, demand_range |-> r,
     stock_multiplier |-> m, difficulty |-> diff]

Malformed(c) ==
    \/ c.n_garages < 0 \/ c.n_depots < 0 \/ c.n_stations < 0
    \/ c.truck_capacity <= 0
    \/ c.demand_range[1] > c.demand_range[2]
    \/ c.zone_size <= 0

(* The site counts and zone of the geometry families: a 10 m zone has 2    *)
(* steps per axis, a 20 m zone, kept to two sites, has 3.                  *)
GeometryCounts ==
    {k \in (0..MaxGarages) \X (0..1) \X (0..1) \X {10, 20} :
        k[4] = 20 => k[1] + k[2] + k[3] <= 2}

(* generator.py: two demand families (a zone so small that every          *)
(* coordinate rounds to 0.0; one station under every demand range, then    *)
(* several stations), a geometry family, a family mixing both, and a       *)
(* malformed family.                                                       *)
GeneratorConfigs ==
    {Config(g, 1, 1, 0, c, 4, r, 0, diff) :
        g \in 1..MaxGarages, c \in 1..MaxCapacity,
        r \in ValidDemandRanges, diff \in Difficulties}
    \cup
    {Config(2, 1, s, 0, c, 4, r, 0, "medium") :
        s \in 1..MaxStations, c \in 1..MaxCapacity, r \in {<<0, 1>>, <<1, 2>>}}
    \cup
    {Config(k[1], k[2], k[3], 0, 1, k[4], <<0, 0>>, 0, "hard") : k \in GeometryCounts}
    \cup
    {Config(2, 1, 1, 0, 1, 10, <<1, 1>>, 0, diff) : diff \in {"easy", "hard"}}
    \cup
    {Config(1, 1, s, 0, c, z, r, 0, "medium") :
        s \in 0..1, c \in {0 - 1, 0, 1}, z \in {0 - 10, 0, 4},
        r \in {<<0, 0>>, <<1, 1>>, <<1, 0>>}}

EmptyFrame ==
    [all_coords |-> <<>>, coords_garages |-> <<>>, station_demands |-> <<>>,
     total_demand_essence |-> 0, total_demand_gasoil |-> 0,
     req_trucks_essence |-> 0, req_trucks_gasoil |-> 0,
     min_total_required_trucks |-> 0, trucks |-> <<>>, n_trucks |-> 0,
     garage_coords |-> <<>>, depot_coords |-> <<>>, station_coords |-> <<>>,
     distance_matrix |-> <<>>, garages |-> <<>>, depots |-> <<>>,
     stations |-> <<>>, temp_demands |-> <<>>]

-----------------------------------------------------------------------------
(* The order of the phases of generate_instance, and the loops' lengths.   *)

GeneratorPhases == <<"coords", "demands", "required">>

ProjetPhases ==
    <<"garage_coords", "depot_coords", "station_coords", "matrix",
      "temp_demands", "depots", "stations", "trucks", "assemble">>

(* range(n) of a loop phase; a phase that is no loop runs once.            *)
Iterations(c, phase) ==
    CASE phase = "coords"         -> c.n_garages + c.n_depots + c.n_stations
      [] phase = "demands"        -> c.n_stations
      [] phase = "garage_coords"  -> c.n_garages
      [] phase = "depot_coords"   -> c.n_depots
      [] phase = "station_coords" -> c.n_stations
      [] phase = "temp_demands"   -> c.n_stations
      [] phase = "depots"         -> c.n_depots
      [] phase = "trucks"         -> c.n_trucks
      [] OTHER                    -> 1

RECURSIVE FirstPhase(_, _)
FirstPhase(c, phases) ==
    IF Iterations(c, Head(phases)) > 0 THEN Head(phases)
    ELSE FirstPhase(c, Tail(phases))

RECURSIVE PhasesAfter(_, _)
PhasesAfter(phases, phase) ==
    IF Head(phases) = phase THEN Tail(phases) ELSE PhasesAfter(Tail(phases), phase)

PhasesOf(prog) == IF prog = "generator" THEN GeneratorPhases ELSE ProjetPhases

(* Where control goes when the loop of `phase` has made `done` iterations. *)
AfterIteration(prog, c, phase, done) ==
    IF done < Iterations(c, phase) THEN phase
    ELSE FirstPhase(c, PhasesAfter(PhasesOf(prog), phase))

-----------------------------------------------------------------------------
(* Steps shared by the two programs.                                       *)

(* The call ends with exception e: nothing is returned.                    *)
Raise(e) ==
    /\ outcome' = e
    /\ pc' = "done"
    /\ UNCHANGED <<instance, loc>>

(* PetroleumVRPGenerator(seed): __init__ seeds the random module.          *)
Construct ==
    /\ pc \in {"idle", "done"}
    /\ pending # <<>>
    /\ self_seed' = Head(pending)[1]
    /\ rng' = SeedRandom(rng, Head(pending)[1])
    /\ prev' = IF pc = "done"
               THEN Append(prev, [seed |-> self_seed, cfg |-> cfg, drawn |-> drawn,
                                  outcome |-> outcome, instance |-> instance])
               ELSE prev
    /\ pc' = "constructed"
    /\ outcome' = "none"
    /\ instance' = <<>>
    /\ drawn' = <<>>
    /\ loc' = EmptyFrame
    /\ UNCHANGED <<program, pending, tape, cfg>>

(* generate_instance is entered with the next configuration.               *)
Call ==
    /\ pc = "constructed"
    /\ cfg' = Head(pending)[2]
    /\ pending' = Tail(pending)
    /\ pc' = FirstPhase(cfg', PhasesOf(program))
    /\ UNCHANGED <<program, self_seed, rng, tape, drawn, loc, outcome, instance, prev>>

(* The list a coordinate phase fills.                                      *)
CoordinateList(phase) == IF phase = "coords" THEN "all_coords" ELSE phase

(* One iteration of _generate_coordinates' loop: x, then y, both rounded;  *)
(* generator.py slices coords_garages off the finished list.               *)
GenerateCoordinate ==
    /\ pc \in {"coords", "garage_coords", "depot_coords", "station_coords"}
    /\ LET call  == <<"uniform", 0, cfg.zone_size>>
           range == CoordinateRange(cfg.zone_size)
           list  == CoordinateList(pc)
       IN  \E x \in Outcomes(Gen, call, range) :
             LET g1 == Take(Gen, call, x)
             IN  \E y \in Outcomes(g1, call, range) :
                   LET coords == Append(loc[list], <<x, y>>)
                       next   == AfterIteration(program, cfg, pc, Len(coords))
                   IN  /\ SetGen(Take(g1, call, y))
                       /\ loc' = [loc EXCEPT
                                    ![list] = coords,
                                    !.coords_garages =
                                        IF pc = "coords" /\ next # pc
                                        THEN SubSeq(coords, 1, cfg.n_garages)
                                        ELSE @]
                       /\ pc' = next
    /\ UNCHANGED <<program, self_seed, pending, cfg, outcome, instance, prev>>

-----------------------------------------------------------------------------
(* src/generator.py                                                        *)

(* One iteration of _generate_demands' loop.                               *)
GenerateDemand ==
    /\ pc = "demands"
    /\ LET min_d == cfg.demand_range[1]
           max_d == cfg.demand_range[2]
           call  == <<"randint", min_d, max_d>>
       IN  IF min_d > max_d
           THEN Raise("ValueError") /\ UNCHANGED <<rng, tape, drawn>>
           ELSE \E e \in Outcomes(Gen, call, DemandDrawRange(cfg.demand_range)) :
                  LET g1 == Take(Gen, call, e)
                  IN  \E g \in Outcomes(g1, call, DemandDrawRange(cfg.demand_range)) :
                        LET all_demands ==
                              Append(loc.station_demands,
                                     [essence |-> e, gasoil |-> g])
                        IN  /\ SetGen(Take(g1, call, g))
                            /\ loc' = [loc EXCEPT !.station_demands = all_demands]
                            /\ pc' = AfterIteration(program, cfg, pc,
                                                    Len(all_demands))
                            /\ UNCHANGED <<outcome, instance>>
    /\ UNCHANGED <<program, self_seed, pending, cfg, prev>>

(* math.ceil(a / b) for b # 0.  For integers below 2^53, as all here are,  *)
(* the float quotient a / b is an integer only when b divides a, so its    *)
(* ceil is the exact one.                                                  *)
FloorDiv(a, b) == IF b > 0 THEN a \div b ELSE (0 - a) \div (0 - b)

CeilDiv(a, b) == 0 - FloorDiv(0 - a, b)

(* _calculate_required_trucks; it divides by truck_capacity only when the  *)
(* demand is not zero.                                                     *)
RequiredTrucksRoundedDown(total_demand, truck_capacity) ==
    IF total_demand = 0 THEN 0 ELSE FloorDiv(total_demand, truck_capacity)

_calculate_required_trucks(total_demand, truck_capacity) ==
    IF total_demand = 0 THEN 0 ELSE CeilDiv(total_demand, truck_capacity)

DividesByZero(total_demand, truck_capacity) ==
    total_demand # 0 /\ truck_capacity = 0

(* sum(d[product] for d in station_demands)                                *)
RECURSIVE TotalDemand(_, _)
TotalDemand(demands, product) ==
    IF demands = <<>> THEN 0
    ELSE Head(demands)[product] + TotalDemand(Tail(demands), product)

(* Steps 3 and 4 of generate_instance: totals and required trucks.         *)
ComputeRequired ==
    /\ pc = "required"
    /\ LET total_e == TotalDemand(loc.station_demands, "essence")
           total_g == TotalDemand(loc.station_demands, "gasoil")
       IN  IF DividesByZero(total_e, cfg.truck_capacity)
              \/ DividesByZero(total_g, cfg.truck_capacity)
           THEN Raise("ZeroDivisionError")
           ELSE LET req_e == _calculate_required_trucks(total_e, cfg.truck_capacity)
                    req_g == _calculate_required_trucks(total_g, cfg.truck_capacity)
                IN  /\ loc' = [loc EXCEPT
                                 !.total_demand_essence = total_e,
                                 !.total_demand_gasoil = total_g,
                                 !.req_trucks_essence = req_e,
                                 !.req_trucks_gasoil = req_g,
                                 !.min_total_required_trucks = req_e + req_g]
                    /\ pc' = IF req_e + req_g > 0 THEN "truck_loop" ELSE "margin"
                    /\ UNCHANGED <<outcome, instance>>
    /\ UNCHANGED <<program, self_seed, pending, rng, tape, drawn, cfg, prev>>

(* list.pop(k), k counted from 0.                                          *)
Pop(list, k) == SubSeq(list, 1, k) \o SubSeq(list, k + 2, Len(list))

(* One iteration of the truck loop: a garage coordinate is taken out of    *)
(* coords_garages; random.randint(0, -1) raises ValueError once the list   *)
(* is empty.  The record literal of the source lacks a comma and the       *)
(* capacity's value; the record is read with the fields that are complete. *)
TruckIteration ==
    /\ pc = "truck_loop"
    /\ LET n    == Len(loc.coords_garages)
           i    == Len(loc.trucks)
           call == <<"randint", 0, n - 1>>
       IN  IF n = 0
           THEN Raise("ValueError") /\ UNCHANGED <<rng, tape, drawn>>
           ELSE \E k \in Outcomes(Gen, call, RandintRange(0, n - 1)) :
                  LET coords == loc.coords_garages[k + 1]
                      trucks == Append(loc.trucks,
                                  [id |-> <<"D", i + 1>>,
                                   name |-> <<"trucks_", i + 1>>,
                                   coordinates |-> [x |-> coords[1], y |-> coords[2]],
                                   index |-> cfg.n_garages + i])
                  IN  /\ SetGen(Take(Gen, call, k))
                      /\ loc' = [loc EXCEPT
                                   !.coords_garages = Pop(@, k),
                                   !.trucks = trucks]
                      /\ pc' = IF Len(trucks) < loc.min_total_required_trucks
                               THEN "truck_loop" ELSE "margin"
                      /\ UNCHANGED <<outcome, instance>>
    /\ UNCHANGED <<program, self_seed, pending, cfg, prev>>

(* The margin of a difficulty, as the float literal of the source.         *)
truck_margin(difficulty) ==
    CASE difficulty = "easy"   -> Margin_1_2
      [] difficulty = "medium" -> Margin_1_1
      [] OTHER                 -> Margin_1_0

(* n_trucks: ceil of the float product, then the two floors (at 2, and at  *)
(* the minimum).  n_trucks_unfloored is the product's ceil alone.          *)
n_trucks_unfloored(min_total_required_trucks, difficulty) ==
    CeilFloatMul(min_total_required_trucks, truck_margin(difficulty))

n_trucks(min_total_required_trucks, difficulty) ==
    Max2(Max2(CeilFloatMul(min_total_required_trucks, truck_margin(difficulty)), 2),
         min_total_required_trucks)

ComputeTrucks ==
    /\ pc = "margin"
    /\ loc' = [loc EXCEPT
                 !.n_trucks = n_trucks(loc.min_total_required_trucks, cfg.difficulty)]
    /\ pc' = "build"
    /\ UNCHANGED <<program, self_seed, pending, rng, tape, drawn, cfg, outcome, instance, prev>>

(* The i-th site (i from 1) of a list built by n all_coords.pop(0) calls:  *)
(* the i-th pop returns the i-th coordinate of the list as the loop found  *)
(* it.                                                                     *)
Site(prefix, name, i, coords, index) ==
    [id |-> <<prefix, i>>, name |-> <<name, i>>,
     coordinates |-> [x |-> coords[1], y |-> coords[2]],
     index |-> index]

GarageIndex(c, i) == i - 1

DepotIndex(c, i) == c.n_garages + (i - 1)

StationIndexWithoutDepots(c, i) == c.n_garages + (i - 1)

StationIndex(c, i) == c.n_garages + c.n_depots + (i - 1)

Garages(c, coords) ==
    [i \in 1..c.n_garages |->
        Site("G", "Garage_", i, coords[i], GarageIndex(c, i))]

Depots(c, coords) ==
    [i \in 1..c.n_depots |->
        Site("D", "Depot_", i, coords[i], DepotIndex(c, i))]

Stations(c, coords) ==
    [i \in 1..c.n_stations |->
        Site("S", "Station_", i, coords[i], StationIndex(c, i))]

WithField(sites, field, values) ==
    [i \in 1..Len(sites) |->
        [f \in DOMAIN sites[i] \cup {field} |->
            IF f = field THEN values[i] ELSE sites[i][f]]]

Point(site) == <<site.coordinates.x, site.coordinates.y>>

(* Step 6 of generate_instance: every entry is computed, the diagonal too. *)
FullDistanceMatrix(all_sites) ==
    [i \in 1..Len(all_sites) |->
        [j \in 1..Len(all_sites) |->
            _euclidean_distance(Point(all_sites[i]), Point(all_sites[j]))]]

(* Steps 5 to 7 of generate_instance: the site lists, the matrix, the      *)
(* instance, which is returned.  generated_at, the clock's reading, and    *)
(* the description are left out.                                           *)
BuildInstance ==
    /\ pc = "build"
    /\ LET ng       == cfg.n_garages
           nd       == cfg.n_depots
           all      == loc.all_coords
           garages  == Garages(cfg, all)
           depots   == Depots(cfg, SubSeq(all, ng + 1, Len(all)))
           stations == WithField(Stations(cfg, SubSeq(all, ng + nd + 1, Len(all))),
                                 "demand", loc.station_demands)
           matrix   == FullDistanceMatrix(garages \o depots \o stations)
       IN  /\ loc' = [loc EXCEPT
                        !.all_coords = SubSeq(all, ng + nd + cfg.n_stations + 1, Len(all)),
                        !.garages = garages, !.depots = depots,
                        !.stations = stations, !.distance_matrix = matrix]
           /\ instance' =
                <<[metadata |-> [difficulty |-> cfg.difficulty,
                                 zone_size_km |-> cfg.zone_size],
                   parameters |-> [n_garages |-> ng, n_depots |-> nd,
                                   n_stations |-> cfg.n_stations,
                                   n_trucks |-> loc.n_trucks,
                                   truck_capacity |-> cfg.truck_capacity,
                                   products |-> PRODUCTS],
                   garages |-> garages, depots |-> depots, stations |-> stations,
                   distance_matrix |-> matrix,
                   statistics |->
                     [total_demand_essence |-> loc.total_demand_essence,
                      required_trucks_essence |-> loc.req_trucks_essence,
                      total_demand_gasoil |-> loc.total_demand_gasoil,
                      required_trucks_gasoil |-> loc.req_trucks_gasoil,
                      min_total_required_trucks |-> loc.min_total_required_trucks,
                      total_trucks_available |-> loc.n_trucks]]>>
    /\ outcome' = "returned"
    /\ pc' = "done"
    /\ UNCHANGED <<program, self_seed, pending, rng, tape, drawn, cfg, prev>>

-----------------------------------------------------------------------------
(* src/projet.py                                                           *)

Multipliers == {110, 200}

(* projet.py: a stock family (one station, then two), a geometry family,   *)
(* a truck family and a malformed family.                                  *)
ProjetConfigs ==
    {Config(1, d, 1, 0, 1, 4, r, m, "medium") :
        d \in 1..MaxDepots, r \in ValidDemandRanges, m \in Multipliers}
    \cup
    {Config(1, 1, s, 0, 1, 4, <<1, 2>>, m, "medium") :
        s \in 1..MaxStations, m \in Multipliers}
    \cup
    {Config(k[1], k[2], k[3], 0, 1, k[4], <<0, 0>>, 200, "medium") :
        k \in GeometryCounts}
    \cup
    {Config(g, 1, 0, t, c, 4, <<0, 0>>, 200, diff) :
        g \in 0..MaxGarages, t \in 0..MaxTrucks, c \in {1, 2, 10},
        diff \in Difficulties}
    \cup
    {Config(1, 1, s, 0, c, z, r, 200, "medium") :
        s \in 0..1, c \in {0 - 1, 0, 1}, z \in {0 - 10, 0, 4},
        r \in {<<0, 0>>, <<1, 1>>, <<1, 0>>}}

(* _compute_distance_matrix: the entries above the diagonal are computed   *)
(* and mirrored, the diagonal keeps its 0.0.                               *)
_compute_distance_matrix(all_coords) ==
    [i \in 1..Len(all_coords) |->
        [j \in 1..Len(all_coords) |->
            IF i = j THEN 0
            ELSE IF i < j THEN _euclidean_distance(all_coords[i], all_coords[j])
            ELSE _euclidean_distance(all_coords[j], all_coords[i])]]

(* Lines 81 to 99: all_coords, the matrix, the garages.                    *)
ComputeMatrix ==
    /\ pc = "matrix"
    /\ LET all == loc.garage_coords \o loc.depot_coords \o loc.station_coords
       IN  loc' = [loc EXCEPT
                     !.all_coords = all,
                     !.distance_matrix = _compute_distance_matrix(all),
                     !.garages = Garages(cfg, loc.garage_coords),
                     !.depots = <<>>,
                     !.total_demand_essence = 0,
                     !.total_demand_gasoil = 0]
    /\ pc' = AfterIteration(program, cfg, pc, 1)
    /\ UNCHANGED <<program, self_seed, pending, rng, tape, drawn, cfg, outcome, instance, prev>>

(* One product's demand of one station: random.random() above the          *)
(* threshold (hundredths) draws the demand, else it stays 0.  The set of   *)
(* <<generator after, "ok" or the exception, demand>>.                     *)
ProductDemand(g, threshold, demand_range) ==
    LET rcall == <<"random", 0, 1>>
        icall == <<"randint", demand_range[1], demand_range[2]>>
    IN  UNION {
          LET g1 == Take(g, rcall, r)
          IN  IF r > threshold
              THEN IF demand_range[1] > demand_range[2]
                   THEN {<<g1, "ValueError", 0>>}
                   ELSE {<<Take(g1, icall, v), "ok", v>> :
                            v \in Outcomes(g1, icall, DemandDrawRange(demand_range))}
              ELSE {<<g1, "ok", 0>>} :
          r \in Outcomes(g, rcall, RandomSamples)}

(* One iteration of the loop of lines 103 to 115.                          *)
DrawStationDemand ==
    /\ pc = "temp_demands"
    /\ \E e \in ProductDemand(Gen, 20, cfg.demand_range) :
         IF e[2] # "ok"
         THEN SetGen(e[1]) /\ Raise(e[2])
         ELSE \E g \in ProductDemand(e[1], 30, cfg.demand_range) :
                IF g[2] # "ok"
                THEN SetGen(g[1]) /\ Raise(g[2])
                ELSE LET temp_demands == Append(loc.temp_demands, <<e[3], g[3]>>)
                     IN  /\ SetGen(g[1])
                         /\ loc' = [loc EXCEPT
                                      !.temp_demands = temp_demands,
                                      !.total_demand_essence = @ + e[3],
                                      !.total_demand_gasoil = @ + g[3]]
                         /\ pc' = AfterIteration(program, cfg, pc, Len(temp_demands))
                         /\ UNCHANGED <<outcome, instance>>
    /\ UNCHANGED <<program, self_seed, pending, cfg, prev>>

(* int(p / q) for q > 0: truncation towards zero.                          *)
Trunc(p, q) == IF p >= 0 THEN p \div q ELSE 0 - ((0 - p) \div q)

(* int(((total_demand * stock_multiplier) / n_depots) * variation), with   *)
(* stock_multiplier and variation in hundredths.                           *)
Stock(total_demand, stock_multiplier, n_depots, variation) ==
    Trunc(total_demand * stock_multiplier * variation, n_depots * 100 * 100)

(* One iteration of the loop of lines 118 to 136.                          *)
GenerateDepot ==
    /\ pc = "depots"
    /\ LET call == <<"uniform", 80, 120>>
           i    == Len(loc.depots) + 1
       IN  \E ue \in Outcomes(Gen, call, UniformSamples(80, 120)) :
             LET g1 == Take(Gen, call, ue)
             IN  \E ug \in Outcomes(g1, call, UniformSamples(80, 120)) :
                   LET stock ==
                         [essence |-> Stock(loc.total_demand_essence,
                                            cfg.stock_multiplier, cfg.n_depots, ue),
                          gasoil  |-> Stock(loc.total_demand_gasoil,
                                            cfg.stock_multiplier, cfg.n_depots, ug)]
                       depot ==
                         WithField(<<Depots(cfg, loc.depot_coords)[i]>>,
                                   "stock", <<stock>>)[1]
                       depots == Append(loc.depots, depot)
                   IN  /\ SetGen(Take(g1, call, ug))
                       /\ loc' = [loc EXCEPT !.depots = depots]
                       /\ pc' = AfterIteration(program, cfg, pc, Len(depots))
    /\ UNCHANGED <<program, self_seed, pending, cfg, outcome, instance, prev>>

(* Lines 139 to 150: the stations with their demands.                      *)
BuildStations ==
    /\ pc = "stations"
    /\ loc' = [loc EXCEPT !.stations =
                 WithField(Stations(cfg, loc.station_coords), "demand",
                           [i \in 1..Len(loc.temp_demands) |->
                               [essence |-> loc.temp_demands[i][1],
                                gasoil  |-> loc.temp_demands[i][2]]])]
    /\ pc' = AfterIteration(program, cfg, pc, 1)
    /\ UNCHANGED <<program, self_seed, pending, rng, tape, drawn, cfg, outcome, instance, prev>>

(* The ends of the capacity variation of a difficulty, in hundredths.      *)
CapacityVariation(difficulty) ==
    CASE difficulty = "easy"   -> <<100, 120>>
      [] difficulty = "medium" -> <<90, 110>>
      [] OTHER                 -> <<70, 100>>

(* int(truck_capacity * variation)                                         *)
TruckCapacity(truck_capacity, variation) == Trunc(truck_capacity * variation, 100)

(* One iteration of the loop of lines 154 to 170; random.choice of an      *)
(* empty garage list raises IndexError.                                    *)
GenerateTruck ==
    /\ pc = "trucks"
    /\ LET n     == Len(loc.garages)
           i     == Len(loc.trucks)
           ccall == <<"choice", 0, n>>
           v     == CapacityVariation(cfg.difficulty)
           ucall == <<"uniform", v[1], v[2]>>
       IN  IF n = 0
           THEN Raise("IndexError") /\ UNCHANGED <<rng, tape, drawn>>
           ELSE \E k \in Outcomes(Gen, ccall, 1..n) :
                  LET g1 == Take(Gen, ccall, k)
                  IN  \E u \in Outcomes(g1, ucall, UniformSamples(v[1], v[2])) :
                        LET trucks == Append(loc.trucks,
                                        [id |-> <<"T", i + 1>>,
                                         home_garage |-> loc.garages[k].id,
                                         capacity |->
                                           TruckCapacity(cfg.truck_capacity, u)])
                        IN  /\ SetGen(Take(g1, ucall, u))
                            /\ loc' = [loc EXCEPT !.trucks = trucks]
                            /\ pc' = AfterIteration(program, cfg, pc, Len(trucks))
                            /\ UNCHANGED <<outcome, instance>>
    /\ UNCHANGED <<program, self_seed, pending, cfg, prev>>

(* sum(d["stock"][product] for d in depots)                                *)
RECURSIVE TotalStock(_, _)
TotalStock(depots, product) ==
    IF depots = <<>> THEN 0
    ELSE Head(depots).stock[product] + TotalStock(Tail(depots), product)

(* _compute_avg_distance_to_depot takes min() over the depots for every    *)
(* station: with a station and no depot it raises ValueError.  Its value,  *)
(* a mean of unrounded square roots, is not part of the modelled instance. *)
AvgDistanceRaises(station_coords, depot_coords) ==
    station_coords # <<>> /\ depot_coords = <<>>

(* _verify_feasibility: its two assert statements pass.                    *)
VerifiesNothing(stats) == TRUE

_verify_feasibility(stats) ==
    /\ stats.total_stock_essence >= stats.total_demand_essence
    /\ stats.total_stock_gasoil >= stats.total_demand_gasoil

(* Lines 172 to 206: the instance, its verification, the return.           *)
AssembleAndVerify ==
    /\ pc = "assemble"
    /\ LET stats ==
             [total_demand_essence |-> loc.total_demand_essence,
              total_demand_gasoil  |-> loc.total_demand_gasoil,
              total_stock_essence  |-> TotalStock(loc.depots, "essence"),
              total_stock_gasoil   |-> TotalStock(loc.depots, "gasoil")]
       IN  IF AvgDistanceRaises(loc.station_coords, loc.depot_coords)
           THEN Raise("ValueError")
           ELSE IF ~ _verify_feasibility(stats)
           THEN Raise("AssertionError")
           ELSE /\ instance' =
                     <<[metadata |-> [difficulty |-> cfg.difficulty,
                                      zone_size_km |-> cfg.zone_size],
                        parameters |-> [n_garages |-> cfg.n_garages,
                                        n_depots |-> cfg.n_depots,
                                        n_stations |-> cfg.n_stations,
                                        n_trucks |-> cfg.n_trucks,
                                        products |-> PRODUCTS],
                        garages |-> loc.garages, depots |-> loc.depots,
                        stations |-> loc.stations, trucks |-> loc.trucks,
                        distance_matrix |-> loc.distance_matrix,
                        statistics |-> stats]>>
                /\ outcome' = "returned"
                /\ pc' = "done"
                /\ UNCHANGED loc
    /\ UNCHANGED <<program, self_seed, pending, rng, tape, drawn, cfg, prev>>

-----------------------------------------------------------------------------
(* Specifications.                                                         *)

ConfigsOf(prog) == IF prog = "generator" THEN GeneratorConfigs ELSE ProjetConfigs

(* Before the first call: the random module is in the state the process    *)
(* started it in (stream 0), nothing has been drawn.                       *)
InitState ==
    /\ self_seed = DefaultSeed
    /\ rng = [seed |-> 0, pos |-> 0]
    /\ tape = [s \in Seeds \cup {0} |-> <<>>]
    /\ drawn = <<>>
    /\ pc = "idle"
    /\ loc = EmptyFrame
    /\ outcome = "none"
    /\ instance = <<>>
    /\ prev = <<>>

(* One generator is constructed and asked for one instance.                *)
Init ==
    /\ program \in {"generator", "projet"}
    /\ pending \in {<<<<DefaultSeed, c>>>> : c \in ConfigsOf(program)}
    /\ cfg = Head(pending)[2]
    /\ InitState

Next ==
    \/ Construct
    \/ Call
    \/ GenerateCoordinate
    \/ GenerateDemand
    \/ ComputeRequired
    \/ TruckIteration
    \/ ComputeTrucks
    \/ BuildInstance
    \/ ComputeMatrix
    \/ DrawStationDemand
    \/ GenerateDepot
    \/ BuildStations
    \/ GenerateTruck
    \/ AssembleAndVerify

Spec == Init /\ [][Next]_vars

-----------------------------------------------------------------------------
(* n_trucks as a function of its two inputs: the step of lines 97 to 116   *)
(* applied to every minimum fleet size up to MaxMinTrucks.                 *)
InitTrucks ==
    /\ program = "generator"
    /\ pending = <<>>
    /\ self_seed = DefaultSeed
    /\ \E m \in 0..MaxMinTrucks, diff \in Difficulties :
         /\ cfg = Config(Max2(m, 1), 1, 1, 0, 1, 4, <<0, 0>>, 0, diff)
         /\ loc = [EmptyFrame EXCEPT !.min_total_required_trucks = m]
    /\ rng = [seed |-> DefaultSeed, pos |-> 0]
    /\ tape = [s \in Seeds \cup {0} |-> <<>>]
    /\ drawn = <<>>
    /\ pc = "margin"
    /\ outcome = "none"
    /\ instance = <<>>
    /\ prev = <<>>

SpecTrucks == InitTrucks /\ [][ComputeTrucks]_vars

(* Two generators are constructed one after the other, each asked for one  *)
(* instance: two seeds, two small configurations per program.              *)
TwoRunConfigs(prog) ==
    IF prog = "generator"
    THEN {Config(1, 1, 0, 0, 1, 10, <<0, 0>>, 0, "hard"),
          Config(1, 1, 1, 0, 1, 4, <<0, 1>>, 0, "easy")}
    ELSE {Config(1, 1, 0, 0, 1, 10, <<0, 0>>, 200, "medium"),
          Config(1, 1, 1, 1, 1, 4, <<1, 1>>, 200, "hard")}

InitTwoRuns ==
    /\ program \in {"generator", "projet"}
    /\ pending \in {<<<<s1, c1>>, <<s2, c2>>>> :
                      s1 \in Seeds, s2 \in Seeds,
                      c1 \in TwoRunConfigs(program), c2 \in TwoRunConfigs(program)}
    /\ cfg = Head(pending)[2]
    /\ InitState

SpecTwoRuns == InitTwoRuns /\ [][Next]_vars

-----------------------------------------------------------------------------
(* Properties.                                                             *)

Returned == instance # <<>>

Inst == instance[1]

AllSites(inst) == inst.garages \o inst.depots \o inst.stations

NonNegativeDemandRange(c) == 0 <= c.demand_range[1] /\ c.demand_range[1] <= c.demand_range[2]

(* C1: fleet-size policy.  For a valid configuration (positive counts,     *)
(* positive truck_capacity, 0 <= min_d <= max_d) of generator.py, the      *)
(* n_trucks computed, and reported by a returned instance both as          *)
(* parameters.n_trucks and as statistics.total_trucks_available, is at     *)
(* least statistics.min_total_required_trucks and at least 2.              *)
C1_FleetSizePolicy ==
    ( /\ program = "generator"
      /\ cfg.n_garages >= 1 /\ cfg.n_depots >= 1 /\ cfg.n_stations >= 1
      /\ cfg.truck_capacity > 0
      /\ NonNegativeDemandRange(cfg) )
    => /\ pc = "build" =>
            /\ loc.n_trucks >= loc.min_total_required_trucks
            /\ loc.n_trucks >= 2
       /\ Returned =>
            /\ Inst.parameters.n_trucks = Inst.statistics.total_trucks_available
            /\ Inst.parameters.n_trucks >= Inst.statistics.min_total_required_trucks
            /\ Inst.parameters.n_trucks >= 2

C1_Witness ==
    /\ program = "generator"
    /\ Returned
    /\ cfg.n_garages >= 1 /\ cfg.n_depots >= 1 /\ cfg.n_stations >= 1
    /\ cfg.truck_capacity > 0
    /\ NonNegativeDemandRange(cfg)
    /\ Inst.statistics.min_total_required_trucks = 2
    /\ Inst.parameters.n_trucks = 3

(* C2: stock policy.  For a valid configuration of projet.py (n_depots >=  *)
(* 1, stock_multiplier > 1, 0 <= min_d <= max_d) the depots' total stock   *)
(* of each product is at least the stations' total demand of it, and       *)
(* _verify_feasibility never fails.                                        *)
C2_StockPolicy ==
    ( /\ program = "projet"
      /\ cfg.n_depots >= 1
      /\ cfg.stock_multiplier > 100
      /\ NonNegativeDemandRange(cfg) )
    => /\ outcome # "AssertionError"
       /\ Len(loc.depots) = cfg.n_depots =>
            /\ TotalStock(loc.depots, "essence") >= loc.total_demand_essence
            /\ TotalStock(loc.depots, "gasoil") >= loc.total_demand_gasoil

(* C3: input validation.  A call with a malformed configuration (a        *)
(* negative count, truck_capacity <= 0, min_d > max_d or zone_size <= 0)   *)
(* consumes no random draw, returns no instance, and when it ends it ends  *)
(* with a failure.                                                         *)
C3_InputValidation ==
    (Malformed(cfg) /\ pc \notin {"idle", "constructed"})
    => /\ drawn = <<>>
       /\ ~ Returned
       /\ pc = "done" => outcome \notin {"none", "returned"}

(* C4: minimum fleet size.  With truck_capacity > 0, each product's        *)
(* required truck count is the least k >= 0 with k * truck_capacity >=     *)
(* the sum of the stations' demands of that product, and                   *)
(* min_total_required_trucks is the sum of the two counts, in the locals   *)
(* and in the statistics of a returned instance.                           *)
DemandSum(demands, product) ==
    SumSeq([i \in 1..Len(demands) |-> demands[i][product]])

IsLeastCount(k, demand, capacity) ==
    /\ k >= 0
    /\ k * capacity >= demand
    /\ k > 0 => (k - 1) * capacity < demand

C4_MinimumFleetSize ==
    ( /\ program = "generator"
      /\ cfg.truck_capacity > 0
      /\ pc \in {"truck_loop", "margin", "build"} \/ Returned )
    => /\ IsLeastCount(loc.req_trucks_essence,
                       DemandSum(loc.station_demands, "essence"), cfg.truck_capacity)
       /\ IsLeastCount(loc.req_trucks_gasoil,
                       DemandSum(loc.station_demands, "gasoil"), cfg.truck_capacity)
       /\ loc.min_total_required_trucks
            = loc.req_trucks_essence + loc.req_trucks_gasoil
       /\ Returned =>
            /\ IsLeastCount(Inst.statistics.required_trucks_essence,
                            DemandSum([i \in 1..Len(Inst.stations) |->
                                          Inst.stations[i].demand], "essence"),
                            Inst.parameters.truck_capacity)
            /\ IsLeastCount(Inst.statistics.required_trucks_gasoil,
                            DemandSum([i \in 1..Len(Inst.stations) |->
                                          Inst.stations[i].demand], "gasoil"),
                            Inst.parameters.truck_capacity)
            /\ Inst.statistics.min_total_required_trucks
                 = Inst.statistics.required_trucks_essence
                   + Inst.statistics.required_trucks_gasoil

C4_Witness ==
    /\ program = "generator"
    /\ Returned
    /\ Len(Inst.stations) = 2
    /\ Inst.parameters.truck_capacity = 2
    /\ Inst.statistics.total_demand_essence = 1
    /\ Inst.statistics.total_demand_gasoil = 2
    /\ Inst.statistics.min_total_required_trucks = 2

(* C5: available trucks.  For every minimum fleet size m and difficulty,   *)
(* n_trucks is exactly max(2, m, ceil(m * margin)) with margins 1.20, 1.10 *)
(* and 1.00, the product taken exactly.                                    *)
MarginPercent(difficulty) ==
    CASE difficulty = "easy"   -> 120
      [] difficulty = "medium" -> 110
      [] difficulty = "hard"   -> 100

C5_AvailableTrucks ==
    (program = "generator" /\ (pc = "build" \/ Returned)
        /\ loc.min_total_required_trucks >= 0)
    => loc.n_trucks
         = Max2(Max2(2, loc.min_total_required_trucks),
                CeilDiv(loc.min_total_required_trucks * MarginPercent(cfg.difficulty),
                        100))

(* C6: distance matrix.  In a returned instance the matrix is square of    *)
(* size n_garages + n_depots + n_stations, every entry is >= 0, it is      *)
(* symmetric, its diagonal is 0, and the entry of two sites of equal       *)
(* coordinates is 0.                                                       *)
C6_DistanceMatrix ==
    Returned =>
      LET m     == Inst.distance_matrix
          sites == AllSites(Inst)
          n     == Inst.parameters.n_garages + Inst.parameters.n_depots
                   + Inst.parameters.n_stations
      IN  /\ Len(m) = n
          /\ Len(sites) = n
          /\ \A i \in 1..n :
               /\ Len(m[i]) = n
               /\ m[i][i] = 0
               /\ \A j \in 1..n :
                    /\ m[i][j] >= 0
                    /\ m[i][j] = m[j][i]
                    /\ sites[i].coordinates = sites[j].coordinates => m[i][j] = 0

C6_Witness ==
    /\ Returned
    /\ \E i, j, k \in 1..Len(Inst.distance_matrix) :
         /\ i # j
         /\ AllSites(Inst)[i].coordinates = AllSites(Inst)[j].coordinates
         /\ AllSites(Inst)[i].coordinates.x # AllSites(Inst)[i].coordinates.y
         /\ Inst.distance_matrix[i][k] > 0

(* C7: index integrity.  In a returned instance the index fields of the    *)
(* garages, then the depots, then the stations are 0, 1, ..., n_sites - 1, *)
(* and entry (i, j) of the matrix is the rounded distance between the      *)
(* sites whose indices are i and j.                                        *)
C7_IndexIntegrity ==
    Returned =>
      LET sites == AllSites(Inst)
          m     == Inst.distance_matrix
      IN  /\ \A k \in 1..Len(sites) : sites[k].index = k - 1
          /\ Len(m) = Len(sites)
          /\ \A i, j \in 1..Len(m) :
               \A si, sj \in {sites[k] : k \in 1..Len(sites)} :
                 (si.index = i - 1 /\ sj.index = j - 1)
                 => m[i][j] = _euclidean_distance(Point(si), Point(sj))

C7_Witness ==
    /\ Returned
    /\ Len(Inst.garages) = 2 /\ Len(Inst.depots) = 1 /\ Len(Inst.stations) = 1
    /\ Inst.distance_matrix[1][2] # Inst.distance_matrix[1][3]
    /\ Inst.distance_matrix[3][4] > 0

(* C8: determinism.  Two runs that construct the generator with the same   *)
(* seed and call generate_instance with the same configuration consume the *)
(* same draws in the same order, end the same way, and return the same     *)
(* site coordinates, station demands and distance matrix.                  *)
SiteData(inst) ==
    IF inst = <<>> THEN <<>>
    ELSE <<[k \in 1..Len(AllSites(inst[1])) |-> AllSites(inst[1])[k].coordinates],
           [k \in 1..Len(inst[1].stations) |-> inst[1].stations[k].demand],
           inst[1].distance_matrix>>

C8_Determinism ==
    (pc = "done" /\ prev # <<>> /\ prev[1].seed = self_seed /\ prev[1].cfg = cfg)
    => /\ prev[1].drawn = drawn
       /\ prev[1].outcome = outcome
       /\ SiteData(prev[1].instance) = SiteData(instance)

C8_Witness ==
    /\ pc = "done" /\ prev # <<>> /\ prev[1].seed = self_seed /\ prev[1].cfg = cfg
    /\ Returned
    /\ Len(drawn) >= 4
    /\ \E i, j \in 1..Len(Inst.distance_matrix) : Inst.distance_matrix[i][j] > 0

(* C9: demand range.  With 0 <= min_d <= max_d there is one demand record  *)
(* per station, and each demand is an integer of min_d..max_d in           *)
(* generator.py, and 0 or an integer of min_d..max_d in projet.py.         *)
DemandAllowed(d, c) ==
    \/ d \in c.demand_range[1]..c.demand_range[2]
    \/ program = "projet" /\ d = 0

C9_DemandRange ==
    NonNegativeDemandRange(cfg) =>
      /\ \A i \in 1..Len(loc.station_demands) :
           /\ DemandAllowed(loc.station_demands[i].essence, cfg)
           /\ DemandAllowed(loc.station_demands[i].gasoil, cfg)
      /\ \A i \in 1..Len(loc.temp_demands) :
           /\ DemandAllowed(loc.temp_demands[i][1], cfg)
           /\ DemandAllowed(loc.temp_demands[i][2], cfg)
      /\ Returned =>
           /\ Len(Inst.stations) = cfg.n_stations
           /\ \A i \in 1..Len(Inst.stations) :
                /\ DemandAllowed(Inst.stations[i].demand.essence, cfg)
                /\ DemandAllowed(Inst.stations[i].demand.gasoil, cfg)

C9_Witness ==
    /\ Returned
    /\ cfg.demand_range = <<1, 2>>
    /\ Len(Inst.stations) = 2
    /\ Inst.stations[1].demand.essence = 1
    /\ Inst.stations[2].demand.gasoil = 2

(* C10: fatal post-condition.  projet.py never returns an instance whose   *)
(* total stock of a product is below its total demand; when the totals     *)
(* handed to _verify_feasibility violate stock >= demand, the call ends    *)
(* with AssertionError and returns nothing.                                *)
StockCovers(stock, demand) == stock >= demand

AssembledStatistics ==
    /\ pc = "done"
    /\ Len(loc.stations) = cfg.n_stations
    /\ Len(loc.depots) = cfg.n_depots
    /\ Len(loc.trucks) = cfg.n_trucks
    /\ ~ AvgDistanceRaises(loc.station_coords, loc.depot_coords)

C10_FatalPostCondition ==
    program = "projet" =>
      /\ Returned =>
           /\ StockCovers(Inst.statistics.total_stock_essence,
                          Inst.statistics.total_demand_essence)
           /\ StockCovers(Inst.statistics.total_stock_gasoil,
                          Inst.statistics.total_demand_gasoil)
           /\ StockCovers(SumSeq([i \in 1..Len(Inst.depots) |->
                                     Inst.depots[i].stock.essence]),
                          DemandSum([i \in 1..Len(Inst.stations) |->
                                        Inst.stations[i].demand], "essence"))
           /\ StockCovers(SumSeq([i \in 1..Len(Inst.depots) |->
                                     Inst.depots[i].stock.gasoil]),
                          DemandSum([i \in 1..Len(Inst.stations) |->
                                        Inst.stations[i].demand], "gasoil"))
      /\ ( /\ AssembledStatistics
           /\ \/ ~ StockCovers(TotalStock(loc.depots, "essence"),
                               loc.total_demand_essence)
              \/ ~ StockCovers(TotalStock(loc.depots, "gasoil"),
                               loc.total_demand_gasoil) )
         => (outcome = "AssertionError" /\ ~ Returned)

C10_Witness ==
    /\ program = "projet"
    /\ pc = "done"
    /\ outcome = "AssertionError"
    /\ ~ Returned
    /\ TotalStock(loc.depots, "gasoil") < loc.total_demand_gasoil

(* C11: truck capacity.  In projet.py, for every truck_capacity > 0, every *)
(* difficulty and every outcome of the capacity variation draw, each truck *)
(* record built has a capacity > 0, and a returned instance holds n_trucks *)
(* such records.                                                           *)
C11_TruckCapacity ==
    (program = "projet" /\ cfg.truck_capacity > 0)
    => /\ \A i \in 1..Len(loc.trucks) : loc.trucks[i].capacity > 0
       /\ Returned =>
            /\ Len(Inst.trucks) = Inst.parameters.n_trucks
            /\ \A i \in 1..Len(Inst.trucks) : Inst.trucks[i].capacity > 0

(* C12: completion.  For every valid configuration of generator.py (site   *)
(* counts >= 1, truck_capacity > 0, zone_size > 0, 0 <= min_d <= max_d, a  *)
(* known difficulty) and every outcome of the draws, no step of            *)
(* generate_instance fails, the truck loop included, and a call that has   *)
(* ended has returned an instance.                                         *)
C12_Completion ==
    ( /\ program = "generator"
      /\ cfg.n_garages >= 1 /\ cfg.n_depots >= 1 /\ cfg.n_stations >= 1
      /\ cfg.truck_capacity > 0
      /\ cfg.zone_size > 0
      /\ NonNegativeDemandRange(cfg)
      /\ cfg.difficulty \in Difficulties
      /\ pc \notin {"idle", "constructed"} )
    => /\ outcome \in {"none", "returned"}
       /\ pc = "done" => (outcome = "returned" /\ Returned)

=============================================================================
